---- MODULE Spec2Model ----
(***************************************************************************)
(* Order / payment / stock state machine of the betta storefront.          *)
(*                                                                         *)
(* Every request handler of betta/blueprints/store.py and                  *)
(* betta/blueprints/admin.py that touches Order, Payment, Shipment,        *)
(* Variant stock, Product status, Cart or Coupon rows is one action.  A    *)
(* request runs in one database transaction, so the sequential             *)
(* specification Spec takes each handler as one atomic step.  Admin        *)
(* handlers are modelled for a logged-in admin.                            *)
(***************************************************************************)
EXTENDS Integers, Sequences, FiniteSets, TLC

----------------------------------------------------------------------------
(* Bounds of the model *)

\* orders that checkout may create
MaxOrders == 1
\* largest quantity of one cart line
MaxQty == 2
\* restock is not taken when it would push a stock_qty above this
MaxStock == 2
\* OrderItem rows the Stock Ledger specification inserts into its order
MaxLedgerItems == 2
\* longest of the short payee ids the PromptPay specification encodes
MaxIdLen == 3

\* ids of the Variant rows and of the Product rows that exist
Variants == {1, 2}
Products == {1, 2}

\* None
NULL == "None"
\* datetime.utcnow() as stored in a timestamp column
NOW == "utcnow"
\* a nullable integer column: None, or the integer x
NoValue == <<>>
Value(x) == <<x>>

----------------------------------------------------------------------------
(* Program constants *)

\* stock_qty of a seeded Variant
SeedStock == 1
\* DEFAULT_SHIPPING_DOMESTIC and DEFAULT_SHIPPING_INTERNATIONAL
ShippingDomestic == 150
ShippingInternational == 650

\* Variant.product_id and Variant.price of the rows that exist
ProductOf(v) == v
SeedPrice(v) == IF v = 1 THEN 100 ELSE 50

----------------------------------------------------------------------------
(* Inputs of the requests *)

\* request.form["country"]; None is a form without the field
Countries == {NULL}
\* request.form["payment_method"]; None is a form without the field
PaymentMethods == {NULL, "stripe"}
\* request.form["coupon"]
CouponInputs == {NULL, "SAVE10"}
\* request.form["action"] of cancel_order; None is a form without the field
CancelActions == {NULL, "restock", "damaged", "refund"}
\* request.form["status"] of product_edit
ProductStatuses == {"active", "draft"}
\* status of a remote payment intent
IntentStatuses == {"requires_payment_method", "succeeded"}
\* what a call of the remote payment provider does: it answers, it raises a
\* stripe.error.StripeError, or init_stripe raises RuntimeError (no secret key)
RemoteOutcomes == {"ok", "StripeError", "RuntimeError"}
\* datetime.utcnow() as compared with a coupon's window
Times == {2, 3}

Canceled == {"canceled", "canceled_damaged"}

----------------------------------------------------------------------------
(* State *)

VARIABLES
    variants,   \* variants table: id -> [product_id, price, stock_qty]
    products,   \* products table: id -> [status]
    coupons,    \* coupons table: code -> row
    carts,      \* carts table: id (index) -> [items: sequence of cart_items rows]
    orders,     \* orders table: id (index) -> row with its items, payments, shipment
    intents,    \* payment intents held by the remote provider: id (index) -> row
    session,    \* the browser session: [cart_id]
    resp,       \* the last response: [op, outcome, location]
    requests    \* requests in flight, where they are served concurrently

vars == <<variants, products, coupons, carts, orders, intents, session, resp, requests>>

\* the relational rows, as one value
DB == [variants |-> variants, products |-> products, coupons |-> coupons,
       carts |-> carts, orders |-> orders]

----------------------------------------------------------------------------
(* Rows *)

\* a CartItem row
CartItem(v, qty, price_at) == [variant_id |-> v, qty |-> qty, price_at |-> price_at]

\* CartItem.total_price
CartItemTotal(item) == item.price_at * item.qty

\* an OrderItem row
OrderItem(v, qty, unit_price, total_price) ==
    [variant_id |-> v, qty |-> qty, unit_price |-> unit_price, total_price |-> total_price]

\* a Payment row; amount defaults to 0 and status to "init"
Payment(method, ref, amount, status, paid_at, slip_url) ==
    [method |-> method, ref |-> ref, amount |-> amount, status |-> status,
     paid_at |-> paid_at, slip_url |-> slip_url]

\* a Shipment row
Shipment(carrier, tracking_no, status, shipped_at) ==
    [carrier |-> carrier, tracking_no |-> tracking_no,
     label_url |-> "/static/labels/placeholder.pdf", status |-> status,
     shipped_at |-> shipped_at, received_at |-> NULL]

\* an Order row, with the rows it owns
Order(status, payment_method, subtotal, shipping_fee, discount, currency) ==
    [status |-> status, payment_method |-> payment_method, subtotal |-> subtotal,
     shipping_fee |-> shipping_fee, discount |-> discount, grand_total |-> 0,
     currency |-> currency, items |-> <<>>, payments |-> <<>>, shipments |-> <<>>]

\* the response of a request: the handler; the category of the message it
\* flashes, or the status or error of its JSON body, or the HTTP error it aborts
\* with; and the endpoint it redirects to, or the HTTP status of its body
Response(op, outcome, location) == [op |-> op, outcome |-> outcome, location |-> location]

----------------------------------------------------------------------------
(* Sequences *)

RECURSIVE SumOver(_, _)
\* sum(f(x) for x in xs), f a function on the elements
SumOver(f, xs) == IF xs = <<>> THEN 0 ELSE f[Head(xs)] + SumOver(f, Tail(xs))

\* xs[-1]
Last(xs) == xs[Len(xs)]

\* xs with its last element replaced
SetLast(xs, x) == [xs EXCEPT ![Len(xs)] = x]

\* Cart.total
CartTotal(cart) == SumOver([it \in {cart.items[i] : i \in DOMAIN cart.items} |-> CartItemTotal(it)], cart.items)

----------------------------------------------------------------------------
(* Stock Ledger: the after_insert and after_delete listeners of OrderItem *)

\* a decrement that stops at zero
reduce_stock_floored(vs, target) ==
    IF target.qty # 0
    THEN [vs EXCEPT ![target.variant_id].stock_qty =
             IF @ - target.qty < 0 THEN 0 ELSE @ - target.qty]
    ELSE vs

\* UPDATE variants SET stock_qty = stock_qty - qty WHERE id = variant_id
reduce_stock(vs, target) ==
    IF target.qty # 0
    THEN [vs EXCEPT ![target.variant_id].stock_qty = @ - target.qty]
    ELSE vs

\* UPDATE variants SET stock_qty = stock_qty + qty WHERE id = variant_id
restore_stock(vs, target) ==
    IF target.qty # 0
    THEN [vs EXCEPT ![target.variant_id].stock_qty = @ + target.qty]
    ELSE vs

----------------------------------------------------------------------------
(* Coupon *)

\* Coupon.is_valid; a column that is None or zero is falsy
is_valid(c, subtotal, now) ==
    IF ~c.is_active THEN FALSE
    ELSE IF c.start_at # NoValue /\ now < c.start_at[1] THEN FALSE
    ELSE IF c.end_at # NoValue /\ now > c.end_at[1] THEN FALSE
    ELSE IF c.min_subtotal # NoValue /\ c.min_subtotal[1] # 0 /\ subtotal < c.min_subtotal[1] THEN FALSE
    ELSE IF c.max_uses # NoValue /\ c.max_uses[1] # 0 /\ c.used_count >= c.max_uses[1] THEN FALSE
    ELSE TRUE

Min(a, b) == IF a <= b THEN a ELSE b

\* Coupon.discount_amount
discount_amount(c, subtotal) ==
    IF c.type = "percent"
    THEN (subtotal * c.value) \div 100
    ELSE Min(c.value, subtotal)

----------------------------------------------------------------------------
(* Shipping quotes, without a weight *)

calculate_domestic == ShippingDomestic
calculate_international == ShippingInternational

----------------------------------------------------------------------------
(* Remote payment provider *)

\* _to_stripe_amount: the amount in minor currency units
to_stripe_amount(amount) == amount * 100

\* round(amount / 100, 2) of an amount in minor currency units
from_stripe_amount(amount) == amount \div 100

----------------------------------------------------------------------------
(* Initial state: the seeded catalogue, one coupon, no cart, no order *)

Init ==
    /\ requests = <<>>
    /\ variants = [v \in Variants |->
                     [product_id |-> ProductOf(v), price |-> SeedPrice(v), stock_qty |-> SeedStock]]
    /\ products = [p \in Products |-> [status |-> "active"]]
    /\ coupons = [code \in {"SAVE10"} |->
                     [type |-> "percent", value |-> 10, min_subtotal |-> NoValue,
                      max_uses |-> Value(1), used_count |-> 0, start_at |-> NoValue,
                      end_at |-> Value(2), is_active |-> TRUE]]
    /\ carts = <<>>
    /\ orders = <<>>
    /\ intents = <<>>
    /\ session = [cart_id |-> NoValue]
    /\ resp = Response("start", "none", "none")

----------------------------------------------------------------------------
(* Transactions *)

\* db.session.commit(): the pending rows become the persisted ones
commit(persisted, pending) == pending

\* a rollback that leaves the stock updates of the listeners in place
rollback_keeps_stock(persisted, pending) == [persisted EXCEPT !.variants = pending.variants]

\* db.session.rollback(), and the session's removal after an unhandled
\* exception: the persisted rows stay as they were
rollback(persisted, pending) == persisted

----------------------------------------------------------------------------
(* Cart *)

\* _get_or_create_cart: the session's cart, or a new committed Cart row
get_or_create_cart(cs, sess) ==
    IF sess.cart_id # NoValue /\ sess.cart_id[1] \in DOMAIN cs
    THEN [carts |-> cs, session |-> sess, id |-> sess.cart_id[1]]
    ELSE [carts |-> Append(cs, [items |-> <<>>]),
          session |-> [sess EXCEPT !.cart_id = Value(Len(cs) + 1)],
          id |-> Len(cs) + 1]

\* POST /cart/add
add_to_cart ==
    \E variant_id \in Variants \cup {0} :
        /\ Len(orders) < MaxOrders
        /\ IF variant_id = 0
           THEN /\ resp' = Response("add_to_cart", "error", "store.product_list")
                /\ UNCHANGED <<requests, variants, products, coupons, carts, orders, intents, session>>
           ELSE IF variants[variant_id].stock_qty <= 0
           THEN /\ resp' = Response("add_to_cart", "error", "store.product_detail")
                /\ UNCHANGED <<requests, variants, products, coupons, carts, orders, intents, session>>
           ELSE LET gc == get_or_create_cart(carts, session)
                    items == gc.carts[gc.id].items
                    found == {i \in DOMAIN items : items[i].variant_id = variant_id}
                    existing == CHOOSE i \in found : \A j \in found : i <= j
                IN  /\ found # {} => items[existing].qty < MaxQty
                    /\ carts' = IF found # {}
                                THEN [gc.carts EXCEPT ![gc.id].items[existing].qty = @ + 1]
                                ELSE [gc.carts EXCEPT ![gc.id].items =
                                         Append(@, CartItem(variant_id, 1,
                                                            variants[variant_id].price))]
                    /\ session' = gc.session
                    /\ resp' = Response("add_to_cart", "success", "store.cart_view")
                    /\ UNCHANGED <<requests, variants, products, coupons, orders, intents>>

----------------------------------------------------------------------------
(* Checkout *)

\* str.upper of a country code
Upper(country) == IF country = "th" THEN "TH" ELSE country

\* snapshots that take one unit of every line
order_items_single(cart) ==
    [i \in DOMAIN cart.items |->
        OrderItem(cart.items[i].variant_id, 1, cart.items[i].price_at,
                  CartItemTotal(cart.items[i]))]

\* the OrderItem snapshots of the cart's lines
order_items(cart) ==
    [i \in DOMAIN cart.items |->
        OrderItem(cart.items[i].variant_id, cart.items[i].qty, cart.items[i].price_at,
                  CartItemTotal(cart.items[i]))]

RECURSIVE insert_order_items_in_stock(_, _)
\* a flush that takes from stock only what the stock holds
insert_order_items_in_stock(vs, items) ==
    IF items = <<>> THEN vs
    ELSE insert_order_items_in_stock(
             IF vs[Head(items).variant_id].stock_qty >= Head(items).qty
             THEN reduce_stock(vs, Head(items)) ELSE vs,
             Tail(items))

RECURSIVE insert_order_items(_, _)
\* the flush of the OrderItem rows: after_insert fires for each of them
insert_order_items(vs, items) ==
    IF items = <<>> THEN vs
    ELSE insert_order_items(reduce_stock(vs, Head(items)), Tail(items))

\* totals that leave the discount out of grand_total
update_totals_without_discount(order) ==
    LET subtotal == SumOver([it \in {order.items[i] : i \in DOMAIN order.items} |-> it.total_price],
                            order.items)
    IN  [order EXCEPT !.subtotal = subtotal,
                      !.grand_total = subtotal + order.shipping_fee]

\* Order.update_totals
update_totals(order) ==
    LET subtotal == SumOver([it \in {order.items[i] : i \in DOMAIN order.items} |-> it.total_price],
                            order.items)
    IN  [order EXCEPT !.subtotal = subtotal,
                      !.grand_total = subtotal + order.shipping_fee - order.discount]

\* the Coupon row with this code, if any
find_coupon(cps, coupon_code) ==
    IF coupon_code # NULL /\ coupon_code # "" /\ coupon_code \in DOMAIN cps
    THEN {coupon_code} ELSE {}

\* the discount checkout gives for the submitted code
checkout_discount(cps, coupon_code, subtotal, now) ==
    IF \E code \in find_coupon(cps, coupon_code) : is_valid(cps[code], subtotal, now)
    THEN discount_amount(cps[coupon_code], subtotal)
    ELSE 0

\* the Order of a checkout with its items and its initial Payment, before
\* the remote provider is called
new_order(cart, country, payment_method, discount) ==
    LET order == update_totals(
                    [Order("pending", payment_method, CartTotal(cart),
                           IF Upper(country) = "TH" THEN calculate_domestic
                                                    ELSE calculate_international,
                           discount,
                           IF Upper(country) = "TH" THEN "THB" ELSE "USD")
                     EXCEPT !.items = order_items(cart)])
    IN  [order EXCEPT !.payments =
            <<Payment(payment_method, NoValue, order.grand_total, "init", NULL, NULL)>>]

\* the Payment of a stripe checkout once the intent is created
mirror_intent(payment, intent_id, intent) ==
    [payment EXCEPT !.ref = Value(intent_id),
                    !.status = IF intent.status # "" THEN intent.status ELSE @,
                    !.amount = from_stripe_amount(intent.amount)]

\* the rows as checkout leaves them in its transaction: the Order with its
\* items and Payment inserted, stock reduced, the coupon counted, the cart's
\* items deleted. intent is the remote provider's answer, if it was asked.
checkout_pending(db, cart_id, order, coupon_code, intent) ==
    LET paid == IF intent = <<>> THEN order
                ELSE [order EXCEPT !.payments[1] = mirror_intent(@, intent[1].id, intent[1])]
    IN  [db EXCEPT
            !.orders = Append(@, paid),
            !.variants = insert_order_items(@, order.items),
            !.coupons = [code \in DOMAIN @ |->
                            IF code \in find_coupon(db.coupons, coupon_code)
                            THEN [@[code] EXCEPT !.used_count = @ + 1]
                            ELSE @[code]],
            !.carts = [@ EXCEPT ![cart_id].items = <<>>]]

\* POST /checkout with a cart that has items. remote and intent_status are
\* what the remote provider does if it is called.
checkout_post(gc, country_in, coupon_code, method_in, now, remote, intent_status) ==
    LET cart == gc.carts[gc.id]
        db == [DB EXCEPT !.carts = gc.carts]
        country == IF country_in = NULL THEN "TH" ELSE country_in
        payment_method == IF method_in = NULL THEN "promptpay" ELSE method_in
        discount == checkout_discount(coupons, coupon_code, CartTotal(cart), now)
        order == new_order(cart, country, payment_method, discount)
        intent_id == Len(intents) + 1
        intent == [id |-> intent_id, status |-> intent_status,
                   amount |-> to_stripe_amount(order.grand_total),
                   currency |-> order.currency]
        failed == payment_method = "stripe" /\ remote # "ok"
        pending == checkout_pending(db, gc.id, order, coupon_code,
                                    IF payment_method = "stripe" /\ ~failed
                                    THEN <<intent>> ELSE <<>>)
        final == IF failed THEN rollback(db, pending) ELSE commit(db, pending)
    IN  /\ Len(orders) < MaxOrders
        /\ variants' = final.variants
        /\ coupons' = final.coupons
        /\ carts' = final.carts
        /\ orders' = final.orders
        /\ intents' = IF payment_method = "stripe" /\ ~failed
                      THEN Append(intents, [amount |-> intent.amount,
                                            currency |-> intent.currency])
                      ELSE intents
        /\ session' = IF failed THEN gc.session ELSE [gc.session EXCEPT !.cart_id = NoValue]
        /\ resp' = IF ~failed THEN Response("checkout", "success", "store.order_status")
                   ELSE IF remote = "StripeError"
                   THEN Response("checkout", "error", "store.checkout")
                   ELSE Response("checkout", "500", "abort")
        /\ UNCHANGED <<requests, products>>

\* GET or POST /checkout
checkout ==
    LET gc == get_or_create_cart(carts, session)
    IN  IF gc.carts[gc.id].items = <<>>
        THEN /\ carts' = gc.carts
             /\ session' = gc.session
             /\ resp' = Response("checkout", "error", "store.product_list")
             /\ UNCHANGED <<requests, variants, products, coupons, orders, intents>>
        ELSE \E http \in {"GET", "POST"} :
            IF http = "GET"
            THEN /\ resp' = Response("checkout", "page", "200")
                 /\ UNCHANGED <<requests, variants, products, coupons, carts, orders, intents, session>>
            ELSE \E country_in \in Countries, coupon_code \in CouponInputs,
                    method_in \in PaymentMethods, now \in Times :
                    IF method_in = "stripe"
                    THEN \E remote \in RemoteOutcomes :
                            IF remote = "ok"
                            THEN \E intent_status \in IntentStatuses :
                                    checkout_post(gc, country_in, coupon_code, method_in, now,
                                                  remote, intent_status)
                            ELSE checkout_post(gc, country_in, coupon_code, method_in, now,
                                               remote, "")
                    ELSE checkout_post(gc, country_in, coupon_code, method_in, now, "ok", "")

----------------------------------------------------------------------------
(* Payment *)

\* ids an order request may name; an id beyond the orders table is not found
OrderIds == 1..MaxOrders

\* the response to a request for an order that does not exist
not_found(op) ==
    /\ resp' = Response(op, "404", "abort")
    /\ UNCHANGED <<requests, variants, products, coupons, carts, orders, intents, session>>

\* an intent counted as paid whatever its status
intent_paid_always(intent_status) == TRUE

\* the remote status that marks the intent as paid
intent_paid(intent_status) == intent_status = "succeeded"

\* POST /payment/stripe/confirm/<order_no>
stripe_confirm_payment ==
    \E o \in OrderIds :
        IF o \notin DOMAIN orders THEN not_found("stripe_confirm_payment")
        ELSE LET order == orders[o]
                 payment == Last(order.payments)
             IN  IF order.payments = <<>> \/ payment.method # "stripe" \/ payment.ref = NoValue
                 THEN /\ resp' = Response("stripe_confirm_payment", "payment_not_found", "400")
                      /\ UNCHANGED <<requests, variants, products, coupons, carts, orders, intents, session>>
                 ELSE \E remote \in RemoteOutcomes :
                     IF remote # "ok"
                     THEN /\ resp' = IF remote = "StripeError"
                                      THEN Response("stripe_confirm_payment", "stripe_error", "502")
                                      ELSE Response("stripe_confirm_payment", "500", "abort")
                          /\ UNCHANGED <<requests, variants, products, coupons, carts, orders, intents, session>>
                     ELSE \E intent_status \in IntentStatuses :
                         LET mirrored == [payment EXCEPT !.status = intent_status]
                             succeeded == [mirrored EXCEPT
                                              !.paid_at = NOW,
                                              !.amount = from_stripe_amount(intents[payment.ref[1]].amount)]
                         IN  /\ orders' = IF intent_paid(intent_status)
                                          THEN [orders EXCEPT ![o].payments = SetLast(@, succeeded),
                                                              ![o].status = "paid"]
                                          ELSE [orders EXCEPT ![o].payments = SetLast(@, mirrored)]
                             /\ resp' = Response("stripe_confirm_payment", intent_status, "200")
                             /\ UNCHANGED <<requests, variants, products, coupons, carts, intents, session>>

\* POST /payment/slip/<order_no>
upload_slip ==
    \E o \in OrderIds, has_file \in BOOLEAN :
        IF o \notin DOMAIN orders THEN not_found("upload_slip")
        ELSE IF ~has_file
        THEN /\ resp' = Response("upload_slip", "error", "store.order_status")
             /\ UNCHANGED <<requests, variants, products, coupons, carts, orders, intents, session>>
        ELSE LET order == orders[o]
                 slip(payment) == [payment EXCEPT !.slip_url = "/static/uploads/slip.png",
                                                  !.status = "init"]
             IN  /\ orders' = IF order.payments # <<>>
                              THEN [orders EXCEPT ![o].payments = SetLast(@, slip(Last(@)))]
                              ELSE [orders EXCEPT ![o].payments =
                                       <<slip(Payment("transfer", NoValue, 0, "init", NULL, NULL))>>]
                 /\ resp' = Response("upload_slip", "success", "store.order_status")
                 /\ UNCHANGED <<requests, variants, products, coupons, carts, intents, session>>

\* a confirmation that adds a Payment row on every call
confirmed_payments_adds_row(order) ==
    Append(order.payments,
           Payment("transfer", NoValue, order.grand_total, "confirmed", NOW, NULL))

\* the payments of the order after confirm_payment: the latest one confirmed,
\* or a confirmed transfer added if there is none
confirmed_payments(order) ==
    IF order.payments # <<>>
    THEN SetLast(order.payments,
                 [Last(order.payments) EXCEPT !.status = "confirmed", !.paid_at = NOW])
    ELSE Append(order.payments,
                Payment("transfer", NoValue, order.grand_total, "confirmed", NOW, NULL))

\* POST /admin/orders/<order_id>/confirm_payment
confirm_payment ==
    \E o \in OrderIds :
        IF o \notin DOMAIN orders THEN not_found("confirm_payment")
        ELSE LET order == orders[o]
             IN  /\ orders' = [orders EXCEPT
                        ![o].payments = confirmed_payments(order),
                        ![o].status = "paid"]
                 /\ resp' = Response("confirm_payment", "success", "admin.dashboard")
                 /\ UNCHANGED <<requests, variants, products, coupons, carts, intents, session>>

----------------------------------------------------------------------------
(* Shipping *)

\* request.form["carrier"] and request.form["tracking_no"]; None is a form
\* without the field
Carriers == {NULL}
TrackingNos == {NULL}

\* the Shipment ship_order creates from the form
created_shipment(carrier, tracking_no) ==
    Shipment(IF carrier = NULL THEN "Kerry Express" ELSE carrier,
             IF tracking_no = NULL \/ tracking_no = "" THEN "KR-generated" ELSE tracking_no,
             "shipped", NOW)

\* a Shipment row added on every call
ship_adds_row(shipments, carrier, tracking_no) ==
    Append(shipments, created_shipment(carrier, tracking_no))

\* the shipments rows of an order after ship_order: order.shipment, the first
\* of them, is updated if there is one and a row is added if there is none
ship(shipments, carrier, tracking_no) ==
    IF shipments = <<>>
    THEN Append(shipments, created_shipment(carrier, tracking_no))
    ELSE LET shipment == shipments[1]
         IN  [shipments EXCEPT ![1] =
                 [shipment EXCEPT !.status = "shipped",
                                  !.carrier = IF carrier = NULL THEN @ ELSE carrier,
                                  !.tracking_no = IF tracking_no = NULL THEN @ ELSE tracking_no,
                                  !.shipped_at = NOW]]

\* POST /admin/orders/<order_id>/ship
ship_order ==
    \E o \in OrderIds, carrier \in Carriers, tracking_no \in TrackingNos :
        IF o \notin DOMAIN orders THEN not_found("ship_order")
        ELSE LET order == orders[o]
             IN  /\ orders' = [orders EXCEPT
                        ![o].status = "shipped",
                        ![o].shipments = ship(order.shipments, carrier, tracking_no)]
                 /\ resp' = Response("ship_order", "success", "admin.dashboard")
                 /\ UNCHANGED <<requests, variants, products, coupons, carts, intents, session>>

----------------------------------------------------------------------------
(* Cancellation *)

RECURSIVE restock_items_by_one(_, _)
\* a restock loop that returns one unit for each item, whatever its quantity
restock_items_by_one(db, items) ==
    IF items = <<>> THEN db
    ELSE LET item == Head(items)
             product == db.variants[item.variant_id].product_id
         IN  restock_items_by_one(
                 [db EXCEPT !.variants[item.variant_id].stock_qty = @ + 1,
                            !.products[product].status =
                                IF @ # "active" THEN "active" ELSE @],
                 Tail(items))

RECURSIVE restock_items(_, _)
\* the restock loop of cancel_order over the order's items: each quantity goes
\* back to its Variant, and a parent Product that is not active becomes active
restock_items(db, items) ==
    IF items = <<>> THEN db
    ELSE LET item == Head(items)
             product == db.variants[item.variant_id].product_id
         IN  restock_items(
                 [db EXCEPT !.variants[item.variant_id].stock_qty = @ + item.qty,
                            !.products[product].status =
                                IF @ # "active" THEN "active" ELSE @],
                 Tail(items))

RECURSIVE clamp_items_unguarded(_, _)
\* a damaged loop that zeroes the stock_qty of every item's Variant
clamp_items_unguarded(db, items) ==
    IF items = <<>> THEN db
    ELSE clamp_items_unguarded([db EXCEPT !.variants[Head(items).variant_id].stock_qty = 0],
                               Tail(items))

RECURSIVE clamp_items(_, _)
\* the damaged loop of cancel_order: a negative stock_qty of an item's
\* Variant becomes zero
clamp_items(db, items) ==
    IF items = <<>> THEN db
    ELSE LET item == Head(items)
         IN  clamp_items(
                 IF db.variants[item.variant_id].stock_qty < 0
                 THEN [db EXCEPT !.variants[item.variant_id].stock_qty = 0]
                 ELSE db,
                 Tail(items))

\* payments canceled with their paid timestamp left as it was
cancel_payments_keep_paid_at(payments) ==
    [i \in DOMAIN payments |-> [payments[i] EXCEPT !.status = "canceled"]]

\* every Payment of the order canceled, its paid timestamp cleared
cancel_payments(payments) ==
    [i \in DOMAIN payments |-> [payments[i] EXCEPT !.status = "canceled", !.paid_at = NULL]]

\* the order's Shipment, if any, canceled and its timestamps cleared
cancel_shipment(shipments) ==
    IF shipments = <<>> THEN shipments
    ELSE [shipments EXCEPT ![1] = [@ EXCEPT !.status = "canceled", !.shipped_at = NULL,
                                              !.received_at = NULL]]

\* a check that knows 'canceled' only
already_canceled_restock_only(order) == order.status = "canceled"

\* cancel_order reads the order as already canceled
already_canceled(order) == order.status \in Canceled

\* the rows after a cancellation that takes effect
cancel_effect(db, o, restock) ==
    LET stocked == IF restock THEN restock_items(db, db.orders[o].items)
                              ELSE clamp_items(db, db.orders[o].items)
    IN  [stocked EXCEPT !.orders[o].payments = cancel_payments(@),
                        !.orders[o].shipments = cancel_shipment(@),
                        !.orders[o].status = IF restock THEN "canceled" ELSE "canceled_damaged"]

\* a mode that takes every action but "restock" as "damaged"
cancel_mode_unchecked(action_in) ==
    IF action_in = NULL \/ action_in = "restock" THEN "restock" ELSE "damaged"

\* what cancel_order makes of the form's action: a form without one asks for
\* "restock", and an action that is neither "restock" nor "damaged" is invalid
cancel_mode(action_in) ==
    LET action == IF action_in = NULL THEN "restock" ELSE action_in
    IN  IF action = "restock" THEN "restock"
        ELSE IF action = "damaged" THEN "damaged"
        ELSE "invalid"

\* POST /admin/orders/<order_id>/cancel for order o with this form action
cancel_order_request(o, action_in) ==
    IF o \notin DOMAIN orders THEN not_found("cancel_order")
    ELSE LET restock == cancel_mode(action_in) = "restock"
             damaged == cancel_mode(action_in) = "damaged"
             final == cancel_effect(DB, o, restock)
         IN  IF already_canceled(orders[o])
             THEN /\ resp' = Response("cancel_order", "info", "admin.dashboard")
                  /\ UNCHANGED <<requests, variants, products, coupons, carts, orders, intents, session>>
             ELSE IF ~restock /\ ~damaged
             THEN /\ resp' = Response("cancel_order", "error", "admin.dashboard")
                  /\ UNCHANGED <<requests, variants, products, coupons, carts, orders, intents, session>>
             ELSE /\ \A v \in Variants : final.variants[v].stock_qty <= MaxStock
                  /\ variants' = final.variants
                  /\ products' = final.products
                  /\ orders' = final.orders
                  /\ resp' = Response("cancel_order", IF restock THEN "success" ELSE "warning",
                                      "admin.dashboard")
                  /\ UNCHANGED <<requests, coupons, carts, intents, session>>

\* POST /admin/orders/<order_id>/cancel
cancel_order ==
    \E o \in OrderIds, action_in \in CancelActions : cancel_order_request(o, action_in)

----------------------------------------------------------------------------
(* Catalogue *)

\* request.form["price"] of product_edit; None is a form without the field
PriceInputs == {NULL}

\* POST /admin/products/<product_id>/edit; a form without a status sets "active"
product_edit ==
    \E p \in Products, status_in \in ProductStatuses \cup {NULL}, price_in \in PriceInputs :
        LET primary == {v \in Variants : variants[v].product_id = p
                                         /\ \A w \in Variants : variants[w].product_id = p => v <= w}
        IN  /\ products' = [products EXCEPT ![p].status =
                               IF status_in = NULL THEN "active" ELSE status_in]
            /\ variants' = [v \in Variants |->
                               IF v \in primary /\ price_in # NULL
                               THEN [variants[v] EXCEPT !.price = price_in]
                               ELSE variants[v]]
            /\ resp' = Response("product_edit", "success", "admin.product_list")
            /\ UNCHANGED <<requests, coupons, carts, orders, intents, session>>

----------------------------------------------------------------------------
(* Specification *)

Next ==
    \/ add_to_cart
    \/ checkout
    \/ stripe_confirm_payment
    \/ upload_slip
    \/ confirm_payment
    \/ ship_order
    \/ cancel_order
    \/ product_edit

Spec == Init /\ [][Next]_vars

\* POST /admin/orders/<order_id>/cancel with any action but "damaged"
cancel_order_not_damaged ==
    \E o \in OrderIds, action_in \in CancelActions \ {"damaged"} :
        cancel_order_request(o, action_in)

\* the requests of Next without a damaged cancellation and a catalogue edit
NextNoDamaged ==
    \/ add_to_cart
    \/ checkout
    \/ stripe_confirm_payment
    \/ upload_slip
    \/ confirm_payment
    \/ ship_order
    \/ cancel_order_not_damaged

SpecNoDamaged == Init /\ [][NextNoDamaged]_vars

----------------------------------------------------------------------------
(* The Stock Ledger alone: OrderItem rows inserted into and deleted from one
   order through the ORM session, from any starting stock *)

\* stock_qty values the ledger starts from
LedgerStocks == {-1, 0, 1, 5}

\* xs without its i-th element
RemoveAt(xs, i) == SubSeq(xs, 1, i - 1) \o SubSeq(xs, i + 1, Len(xs))

LedgerInit ==
    /\ requests = <<>>
    /\ variants \in [Variants -> {[product_id |-> p, price |-> SeedPrice(p), stock_qty |-> n] :
                                      p \in Products, n \in LedgerStocks}]
    /\ \A v \in Variants : variants[v].product_id = ProductOf(v)
    /\ products = [p \in Products |-> [status |-> "active"]]
    /\ coupons = [code \in {} |-> 0]
    /\ carts = <<>>
    /\ orders = <<Order("pending", "promptpay", 0, 0, 0, "THB")>>
    /\ intents = <<>>
    /\ session = [cart_id |-> NoValue]
    /\ resp = Response("start", "none", "none")

\* an OrderItem of quantity qty for Variant v is added to order 1 and flushed
insert_order_item_of(v, qty) ==
    LET target == OrderItem(v, qty, variants[v].price, variants[v].price * qty)
    IN  /\ Len(orders[1].items) < MaxLedgerItems
        /\ orders' = [orders EXCEPT ![1].items = Append(@, target)]
        /\ variants' = reduce_stock(variants, target)
        /\ resp' = Response("after_insert", "flushed", "none")
        /\ UNCHANGED <<requests, products, coupons, carts, intents, session>>

\* the i-th OrderItem of order 1 is deleted and the deletion flushed
delete_order_item_at(i) ==
    /\ i \in DOMAIN orders[1].items
    /\ orders' = [orders EXCEPT ![1].items = RemoveAt(@, i)]
    /\ variants' = restore_stock(variants, orders[1].items[i])
    /\ resp' = Response("after_delete", "flushed", "none")
    /\ UNCHANGED <<requests, products, coupons, carts, intents, session>>

insert_order_item == \E v \in Variants, qty \in 0..MaxQty : insert_order_item_of(v, qty)

delete_order_item == \E i \in 1..MaxLedgerItems : delete_order_item_at(i)

LedgerNext ==
    \/ insert_order_item
    \/ delete_order_item

SpecLedger == LedgerInit /\ [][LedgerNext]_vars

----------------------------------------------------------------------------
(* Checkout alone, of a cart that has its lines, with the stock and the
   coupon count that earlier orders may have left *)

\* stock_qty values a checkout may find
CheckoutStocks == {-1, 0, 1, 2}

\* the lines of the cart: one line of either Variant, or a line of each
CartLines ==
    {<<CartItem(v, qty, SeedPrice(v))>> : v \in Variants, qty \in 1..MaxQty}
    \cup {<<CartItem(1, q1, SeedPrice(1)), CartItem(2, q2, SeedPrice(2))>> :
              q1 \in 1..MaxQty, q2 \in 1..MaxQty}

CheckoutInit ==
    /\ requests = <<>>
    /\ variants \in [Variants -> {[product_id |-> p, price |-> SeedPrice(p), stock_qty |-> n] :
                                      p \in Products, n \in CheckoutStocks}]
    /\ \A v \in Variants : variants[v].product_id = ProductOf(v)
    /\ products = [p \in Products |-> [status |-> "active"]]
    /\ coupons \in [{"SAVE10"} ->
                       {[type |-> "percent", value |-> 10, min_subtotal |-> NoValue,
                         max_uses |-> Value(1), used_count |-> used, start_at |-> NoValue,
                         end_at |-> Value(2), is_active |-> TRUE] : used \in {0, 1}}]
    /\ carts \in {<<[items |-> lines]>> : lines \in CartLines}
    /\ orders = <<>>
    /\ intents = <<>>
    /\ session = [cart_id |-> Value(1)]
    /\ resp = Response("start", "none", "none")

CheckoutNext == checkout

SpecCheckout == CheckoutInit /\ [][CheckoutNext]_vars

----------------------------------------------------------------------------
(* The order handlers alone, on a stored 'pending' Order that has its
   Payment or has none *)

\* the Order row of a cart with these lines, and the same row without Payment
StoredOrders ==
    UNION {{new_order([items |-> lines], "TH", "promptpay", 0),
            [new_order([items |-> lines], "TH", "promptpay", 0) EXCEPT !.payments = <<>>]} :
           lines \in CartLines}

OrderDeskInit ==
    /\ requests = <<>>
    /\ orders \in {<<order>> : order \in StoredOrders}
    /\ variants = insert_order_items(
                      [v \in Variants |-> [product_id |-> ProductOf(v), price |-> SeedPrice(v),
                                           stock_qty |-> SeedStock]],
                      orders[1].items)
    /\ products = [p \in Products |-> [status |-> "active"]]
    /\ coupons = [code \in {} |-> 0]
    /\ carts = <<>>
    /\ intents = <<>>
    /\ session = [cart_id |-> NoValue]
    /\ resp = Response("start", "none", "none")

OrderDeskNext ==
    \/ upload_slip
    \/ confirm_payment
    \/ ship_order
    \/ cancel_order

SpecOrderDesk == OrderDeskInit /\ [][OrderDeskNext]_vars

----------------------------------------------------------------------------
(* The Coupon Validator alone: is_valid and discount_amount called on any
   stored Coupon row *)

\* values of the columns of a stored Coupon
CouponTypes == {"percent", "fixed"}
CouponValues == {0, 10, 100, 150}
CouponThresholds == {NoValue, Value(0), Value(100)}
CouponCaps == {NoValue, Value(0), Value(1)}
CouponWindows == {NoValue, Value(2)}
\* the subtotal and the time of a call
Subtotals == {0, 50, 100}
CouponTimes == {1, 2, 3}

CouponInit ==
    /\ requests = <<>>
    /\ coupons \in [{"SAVE10"} ->
                       [type : CouponTypes, value : CouponValues,
                        min_subtotal : CouponThresholds, max_uses : CouponCaps,
                        used_count : {0, 1}, start_at : CouponWindows,
                        end_at : CouponWindows, is_active : BOOLEAN]]
    /\ variants = [v \in Variants |->
                     [product_id |-> ProductOf(v), price |-> SeedPrice(v), stock_qty |-> SeedStock]]
    /\ products = [p \in Products |-> [status |-> "active"]]
    /\ carts = <<>>
    /\ orders = <<>>
    /\ intents = <<>>
    /\ session = [cart_id |-> NoValue]
    /\ resp = Response("start", "none", "none")

\* coupon.is_valid(subtotal, now); the response is what it returns
is_valid_call(code, subtotal, now) ==
    /\ resp' = Response("is_valid",
                        IF is_valid(coupons[code], subtotal, now) THEN "True" ELSE "False",
                        "none")
    /\ UNCHANGED <<requests, variants, products, coupons, carts, orders, intents, session>>

\* coupon.discount_amount(subtotal); the response is what it returns
discount_amount_call(code, subtotal) ==
    /\ resp' = Response("discount_amount", discount_amount(coupons[code], subtotal), "none")
    /\ UNCHANGED <<requests, variants, products, coupons, carts, orders, intents, session>>

coupon_is_valid ==
    \E code \in DOMAIN coupons, subtotal \in Subtotals, now \in CouponTimes :
        is_valid_call(code, subtotal, now)

coupon_discount_amount ==
    \E code \in DOMAIN coupons, subtotal \in Subtotals : discount_amount_call(code, subtotal)

CouponNext ==
    \/ coupon_is_valid
    \/ coupon_discount_amount

SpecCoupon == CouponInit /\ [][CouponNext]_vars

----------------------------------------------------------------------------
(* The PromptPay encoder alone. A string is the sequence of the code points
   of its characters. *)

\* the initial value and the polynomial of _crc16
CrcInit == 65535
CrcPoly == 4129

\* the string of these decimal digits
Digits(ds) == [i \in DOMAIN ds |-> 48 + ds[i]]

RECURSIVE Xor(_, _)
\* a ^ b
Xor(a, b) ==
    IF a = 0 THEN b
    ELSE IF b = 0 THEN a
    ELSE (((a % 2) + (b % 2)) % 2) + 2 * Xor(a \div 2, b \div 2)

RECURSIVE crc_shift(_, _)
\* the inner loop of _crc16, n rounds of it
crc_shift(crc, n) ==
    LET shifted == (IF (crc \div 32768) % 2 = 1
                    THEN Xor(crc * 2, CrcPoly)
                    ELSE crc * 2) % 65536
    IN  IF n = 0 \/ shifted < 0 THEN crc ELSE crc_shift(shifted, n - 1)

RECURSIVE crc_loop(_, _, _, _)
\* the outer loop of _crc16 over the characters lo..hi of data, in order: the
\* first half of them, then the second (this bounds the depth of evaluation)
crc_loop(crc, data, lo, hi) ==
    IF lo > hi THEN crc
    ELSE IF lo = hi THEN crc_shift(Xor(crc, data[lo] * 256), 8)
    ELSE LET mid == (lo + hi) \div 2
             half == crc_loop(crc, data, lo, mid)
         IN  IF half < 0 THEN crc ELSE crc_loop(half, data, mid + 1, hi)

\* one digit of format spec "x"
hex_digit(d) == IF d < 10 THEN 48 + d ELSE 87 + d

\* f"{n:04x}" of 0 <= n < 65536
format_04x(n) ==
    <<hex_digit(n \div 4096), hex_digit((n \div 256) % 16),
      hex_digit((n \div 16) % 16), hex_digit(n % 16)>>

\* a checksum that starts from zero
crc16_from_zero(data) == format_04x(crc_loop(0, data, 1, Len(data)))

\* _crc16
crc16(data) == format_04x(crc_loop(CrcInit, data, 1, Len(data)))

\* str.upper of an ASCII string
upper(str) == [i \in DOMAIN str |-> IF str[i] >= 97 /\ str[i] <= 122 THEN str[i] - 32 ELSE str[i]]

RECURSIVE decimal(_)
\* str(n) of n >= 0
decimal(n) == IF n < 10 THEN <<48 + n>> ELSE Append(decimal(n \div 10), 48 + (n % 10))

RECURSIVE zero_pad(_, _)
\* str right-aligned in width characters, filled with "0"
zero_pad(str, width) == IF Len(str) >= width THEN str ELSE zero_pad(<<48>> \o str, width)

\* _to_promptpay_amount of a whole, non-negative amount
to_promptpay_amount(amount) == zero_pad(decimal(amount), 6)

\* "6304", the tag and length of the checksum field
crc_tag == Digits(<<6, 3, 0, 4>>)

\* PromptPayPayload.encode
encode(promptpay_id, amount) ==
    LET payload ==
            Digits(<<0, 0, 0, 2, 0, 1, 0, 1, 0, 2, 1, 1>>)
            \o Digits(<<2, 9, 3, 7, 0, 0, 1, 6>>) \o <<65>>
            \o Digits(<<0, 0, 0, 0, 0, 0, 6, 7, 7, 0, 1, 0, 1, 1, 1>>)
            \o Digits(<<0, 1, 1, 3>>) \o zero_pad(promptpay_id, 13)
            \o Digits(<<5, 8, 0, 2>>) \o <<84, 72>>
            \o Digits(<<5, 3, 0, 3, 7, 6, 4>>)
            \o Digits(<<5, 4, 0, 6>>) \o to_promptpay_amount(amount)
    IN  payload \o crc_tag \o upper(crc16(payload \o crc_tag))

\* digits of the short payee ids
IdDigits == {1, 8, 9}

\* PROMPTPAY_ID: every short digit string, a phone number, a 13-digit citizen
\* id and an id longer than the 13 characters of its field
PayeeIds ==
    {Digits(ds) : ds \in UNION {[1..n -> IdDigits] : n \in 0..MaxIdLen}}
    \cup {Digits(<<0, 8, 1, 2, 3, 4, 5, 6, 7, 8>>),
          Digits(<<1, 1, 0, 0, 7, 0, 2, 3, 4, 5, 6, 7, 8>>),
          Digits(<<0, 0, 6, 6, 8, 1, 2, 3, 4, 5, 6, 7, 8, 9>>)}

\* amounts to pay, rounded
Amounts == {0, 1, 400, 999999, 1234567}

\* a PromptPayPayload object, not yet encoded
PromptPayPayload(promptpay_id, amount) ==
    [op |-> "PromptPayPayload", outcome |-> <<>>, location |-> "none",
     promptpay_id |-> promptpay_id, amount |-> amount]

PromptPayInit ==
    /\ requests = <<>>
    /\ resp \in {PromptPayPayload(id, amount) : id \in PayeeIds, amount \in Amounts}
    /\ variants = [v \in Variants |->
                     [product_id |-> ProductOf(v), price |-> SeedPrice(v), stock_qty |-> SeedStock]]
    /\ products = [p \in Products |-> [status |-> "active"]]
    /\ coupons = [code \in {} |-> 0]
    /\ carts = <<>>
    /\ orders = <<>>
    /\ intents = <<>>
    /\ session = [cart_id |-> NoValue]

\* payload.encode(); the response holds the string it returns
promptpay_encode ==
    /\ resp.op = "PromptPayPayload"
    /\ resp' = [resp EXCEPT !.op = "encode", !.outcome = encode(resp.promptpay_id, resp.amount)]
    /\ UNCHANGED <<requests, variants, products, coupons, carts, orders, intents, session>>

PromptPayNext == promptpay_encode

SpecPromptPay == PromptPayInit /\ [][PromptPayNext]_vars

----------------------------------------------------------------------------
(* Two requests served concurrently. Each request runs in its own database
   session: a SELECT sees the rows committed so far; the rows a session
   changes are written when it flushes, from its first write to its commit
   it is the only writer, and a second writer waits for that commit. A row
   the ORM has loaded is not read again within the request. *)

Workers == {1, 2}

\* order numbers two checkouts of the same second can draw
OrderNos == {"BT20261103120000001", "BT20261103120000002"}

\* the order number of the Order stored earlier
StoredOrderNo == "BT20261103115959000"

\* a cart or an order with one line of Variant 1
ConcurrentLines == {<<CartItem(1, qty, SeedPrice(1))>> : qty \in 1..MaxQty}

\* a request as it arrives: POST /checkout with the cart of its session, or
\* POST /admin/orders/<id>/cancel with action=restock; what its session has
\* loaded so far, and how it was answered
Request(op, id) ==
    [op |-> op, id |-> id, pc |-> "received", items |-> <<>>, order_no |-> NULL,
     loaded |-> [variants |-> <<>>, products |-> <<>>], outcome |-> "none"]

RequestInputs == {Request("checkout", 1), Request("checkout", 2), Request("cancel_order", 1)}

ConcurrentInit ==
    /\ requests \in [Workers -> RequestInputs]
    /\ orders \in {<<[order_no |-> StoredOrderNo]
                       @@ new_order([items |-> lines], "TH", "promptpay", 0)>> :
                   lines \in ConcurrentLines}
    /\ variants = insert_order_items(
                      [v \in Variants |-> [product_id |-> ProductOf(v), price |-> SeedPrice(v),
                                           stock_qty |-> SeedStock]],
                      orders[1].items)
    /\ products = [p \in Products |-> [status |-> "active"]]
    /\ coupons = [code \in {} |-> 0]
    /\ carts \in {<<[items |-> lines1], [items |-> lines2]>> :
                  lines1 \in ConcurrentLines, lines2 \in ConcurrentLines}
    /\ intents = <<>>
    /\ session = [cart_id |-> NoValue]
    /\ resp = Response("start", "none", "none")

\* a session has written and not committed yet: checkout between its flush
\* of the Order and its commit
write_locked == \E w \in Workers : requests[w].pc = "flushed"

\* the request is answered
answered(w, outcome, location) ==
    /\ requests' = [requests EXCEPT ![w].pc = "done", ![w].outcome = outcome]
    /\ resp' = Response(requests[w].op, outcome, location)

\* checkout loads the cart and its items, and stops at an empty cart
checkout_load(w) ==
    /\ requests[w].op = "checkout"
    /\ requests[w].pc = "received"
    /\ IF carts[requests[w].id].items = <<>>
       THEN answered(w, "error", "store.product_list")
       ELSE /\ requests' = [requests EXCEPT ![w].pc = "loaded",
                                            ![w].items = carts[requests[w].id].items]
            /\ UNCHANGED resp
    /\ UNCHANGED <<variants, products, coupons, carts, orders, intents, session>>

\* checkout draws the order number and flushes the Order row; a number that
\* an Order already has violates the unique index, and the request fails
checkout_flush(w) ==
    /\ requests[w].op = "checkout"
    /\ requests[w].pc = "loaded"
    /\ ~write_locked
    /\ \E order_no \in OrderNos :
          IF \E o \in DOMAIN orders : orders[o].order_no = order_no
          THEN answered(w, "500", "abort")
          ELSE /\ requests' = [requests EXCEPT ![w].pc = "flushed", ![w].order_no = order_no]
               /\ UNCHANGED resp
    /\ UNCHANGED <<variants, products, coupons, carts, orders, intents, session>>

\* checkout snapshots the items it loaded, which reduces stock, adds the
\* Payment, deletes the items it loaded from the cart, and commits
checkout_commit(w) ==
    LET order == [order_no |-> requests[w].order_no]
                    @@ new_order([items |-> requests[w].items], "TH", "promptpay", 0)
        pending == checkout_pending(DB, requests[w].id, order, NULL, <<>>)
        final == commit(DB, pending)
    IN  /\ requests[w].op = "checkout"
        /\ requests[w].pc = "flushed"
        /\ variants' = final.variants
        /\ carts' = final.carts
        /\ orders' = final.orders
        /\ answered(w, "success", "store.order_status")
        /\ UNCHANGED <<products, coupons, intents, session>>

\* cancel_order loads the Order and stops at one that is canceled
cancel_load(w) ==
    /\ requests[w].op = "cancel_order"
    /\ requests[w].pc = "received"
    /\ IF already_canceled(orders[requests[w].id])
       THEN answered(w, "info", "admin.dashboard")
       ELSE /\ requests' = [requests EXCEPT ![w].pc = "loaded",
                                            ![w].items = orders[requests[w].id].items]
            /\ UNCHANGED resp
    /\ UNCHANGED <<variants, products, coupons, carts, orders, intents, session>>

\* the restock loop loads the Variant and Product rows of the items and sets
\* their new values on the loaded rows
cancel_restock(w) ==
    /\ requests[w].op = "cancel_order"
    /\ requests[w].pc = "loaded"
    /\ requests' = [requests EXCEPT ![w].pc = "dirty",
                                    ![w].loaded = [variants |-> variants, products |-> products]]
    /\ UNCHANGED <<variants, products, coupons, carts, orders, intents, session, resp>>

\* the commit of cancel_order writes the rows it changed with the values it
\* set: the stock_qty computed from the rows it loaded, the Payments and the
\* Shipment canceled, the Order 'canceled'
cancel_commit(w) ==
    LET o == requests[w].id
        loaded == requests[w].loaded
        dirty == restock_items(loaded, requests[w].items)
    IN  /\ requests[w].op = "cancel_order"
        /\ requests[w].pc = "dirty"
        /\ ~write_locked
        /\ variants' = [v \in Variants |->
                           IF dirty.variants[v] # loaded.variants[v]
                           THEN [variants[v] EXCEPT !.stock_qty = dirty.variants[v].stock_qty]
                           ELSE variants[v]]
        /\ products' = [p \in Products |->
                           IF dirty.products[p] # loaded.products[p]
                           THEN dirty.products[p] ELSE products[p]]
        /\ orders' = [orders EXCEPT ![o].payments = cancel_payments(@),
                                    ![o].shipments = cancel_shipment(@),
                                    ![o].status = "canceled"]
        /\ answered(w, "success", "admin.dashboard")
        /\ UNCHANGED <<coupons, carts, intents, session>>

ConcurrentNext ==
    \/ \E w \in Workers : checkout_load(w)
    \/ \E w \in Workers : checkout_flush(w)
    \/ \E w \in Workers : checkout_commit(w)
    \/ \E w \in Workers : cancel_load(w)
    \/ \E w \in Workers : cancel_restock(w)
    \/ \E w \in Workers : cancel_commit(w)

SpecConcurrent == ConcurrentInit /\ [][ConcurrentNext]_vars

----------------------------------------------------------------------------
(* Properties *)

\* the persisted rows are as they were before the step
Untouched ==
    /\ variants' = variants
    /\ products' = products
    /\ coupons' = coupons
    /\ carts' = carts
    /\ orders' = orders

\* the quantity of Variant v on the order's items
OrderQty(order, v) ==
    SumOver([it \in {order.items[i] : i \in DOMAIN order.items} |->
                IF it.variant_id = v THEN it.qty ELSE 0],
            order.items)

\* the quantity of Variant v on the items of the orders that are not 'canceled'
CommittedQty(v) ==
    SumOver([order \in {orders[o] : o \in DOMAIN orders} |->
                IF order.status # "canceled" THEN OrderQty(order, v) ELSE 0],
            orders)

\* C1: without a damaged cancellation, every Variant's stock_qty is its initial
\* stock minus the quantities of its OrderItems on Orders that are not 'canceled'.
C1_StockMatchesOrders ==
    \A v \in Variants : variants[v].stock_qty = SeedStock - CommittedQty(v)

\* C4: once an Order's status is 'canceled' or 'canceled_damaged', no request
\* changes it.
C4_CanceledIsTerminal ==
    [][\A o \in DOMAIN orders :
          orders[o].status \in Canceled => orders'[o].status = orders[o].status]_vars

\* C5: an Order becomes 'shipped' only from 'paid', and a 'shipped' Order never
\* goes back to 'paid' or 'pending'.
C5_PendingPaidShipped ==
    [][\A o \in DOMAIN orders :
          /\ (orders'[o].status = "shipped" /\ orders[o].status # "shipped")
                => orders[o].status = "paid"
          /\ orders[o].status = "shipped" => orders'[o].status \notin {"paid", "pending"}]_vars

\* C2: a stripe checkout whose payment-intent creation fails with a provider
\* error leaves every persisted row as it was (no Order, OrderItem or Payment,
\* stock and coupon counts unchanged), the cart keeps its items, and the
\* response is the error message.
C2_StripeFailureRollsBack ==
    [][\A country_in \in Countries, coupon_code \in CouponInputs, now \in Times :
          LET gc == get_or_create_cart(carts, session)
          IN  (/\ gc.carts[gc.id].items # <<>>
               /\ checkout_post(gc, country_in, coupon_code, "stripe", now, "StripeError", ""))
              => /\ Untouched
                 /\ session' = session
                 /\ carts'[session'.cart_id[1]].items # <<>>
                 /\ resp'.outcome = "error"]_vars

\* C2 witness: the error response of a failed stripe checkout, with no order
\* and the cart's items in place
C2_Witness ==
    /\ resp = Response("checkout", "error", "store.checkout")
    /\ orders = <<>>
    /\ session.cart_id # NoValue
    /\ carts[session.cart_id[1]].items # <<>>
    /\ \A v \in Variants : variants[v].stock_qty = SeedStock

\* C3: cancel_order on an Order that is 'canceled' or 'canceled_damaged'
\* changes no persisted row, whatever the action, and answers with the
\* informational message.
C3_CancelCanceledIsNoOp ==
    [][\A o \in DOMAIN orders, action_in \in CancelActions :
          (orders[o].status \in Canceled /\ cancel_order_request(o, action_in))
              => /\ Untouched
                 /\ resp' = Response("cancel_order", "info", "admin.dashboard")]_vars

\* C3 witness: the informational response, for an order canceled as damaged
C3_Witness ==
    /\ resp = Response("cancel_order", "info", "admin.dashboard")
    /\ \E o \in DOMAIN orders : orders[o].status = "canceled_damaged"

\* the Products that own a Variant on the order's items
OrderProducts(order) ==
    {variants[order.items[i].variant_id].product_id : i \in DOMAIN order.items}

\* C6: a restock cancellation of an Order that is not canceled adds to each
\* Variant's stock_qty the quantity of the Order's items for it (nothing for a
\* Variant the Order does not reference), makes the items' parent Products
\* active, and sets the Order 'canceled'.
C6_RestockReturnsQuantities ==
    [][\A o \in DOMAIN orders, action_in \in {NULL, "restock"} :
          (orders[o].status \notin Canceled /\ cancel_order_request(o, action_in))
              => /\ \A v \in Variants :
                        variants'[v] = [variants[v] EXCEPT
                                           !.stock_qty = @ + OrderQty(orders[o], v)]
                 /\ \A p \in Products :
                        products'[p].status = IF p \in OrderProducts(orders[o])
                                              THEN "active" ELSE products[p].status
                 /\ orders'[o].status = "canceled"]_vars

\* C6 witness: a restock cancellation has returned a line of quantity 2, next to
\* a second line, under a Product that is active
C6_Witness ==
    /\ resp = Response("cancel_order", "success", "admin.dashboard")
    /\ \E o \in DOMAIN orders :
          /\ orders[o].status = "canceled"
          /\ Len(orders[o].items) = 2
          /\ orders[o].items[1].qty = 2
          /\ variants[orders[o].items[1].variant_id].stock_qty = SeedStock
          /\ \A p \in OrderProducts(orders[o]) : products[p].status = "active"

\* C7: after a cancellation that takes effect, every Payment of the Order is
\* 'canceled' with no paid timestamp, and its Shipment, if any, is 'canceled'
\* with no shipped or received timestamp.
C7_CancelClearsPaymentsAndShipment ==
    [][\A o \in DOMAIN orders, action_in \in {NULL, "restock", "damaged"} :
          (orders[o].status \notin Canceled /\ cancel_order_request(o, action_in))
              => /\ Len(orders'[o].payments) = Len(orders[o].payments)
                 /\ \A i \in DOMAIN orders'[o].payments :
                        /\ orders'[o].payments[i].status = "canceled"
                        /\ orders'[o].payments[i].paid_at = NULL
                 /\ Len(orders'[o].shipments) = Len(orders[o].shipments)
                 /\ \A i \in DOMAIN orders'[o].shipments :
                        /\ orders'[o].shipments[i].status = "canceled"
                        /\ orders'[o].shipments[i].shipped_at = NULL
                        /\ orders'[o].shipments[i].received_at = NULL]_vars

\* C7 witness: a cancellation has just canceled a Payment and a Shipment
C7_Witness ==
    /\ resp.op = "cancel_order"
    /\ resp.outcome \in {"success", "warning"}
    /\ \E o \in DOMAIN orders :
          /\ orders[o].status \in Canceled
          /\ orders[o].payments # <<>>
          /\ orders[o].shipments # <<>>
          /\ orders[o].shipments[1].status = "canceled"

\* C8: a damaged cancellation of an Order that is not canceled adds nothing to
\* stock: a negative stock_qty of a Variant on the Order becomes 0, every other
\* stock_qty stays, and the Order becomes 'canceled_damaged'.
C8_DamagedOnlyClamps ==
    [][\A o \in DOMAIN orders :
          (orders[o].status \notin Canceled /\ cancel_order_request(o, "damaged"))
              => /\ \A v \in Variants :
                        variants'[v] =
                            IF OrderQty(orders[o], v) > 0 /\ variants[v].stock_qty < 0
                            THEN [variants[v] EXCEPT !.stock_qty = 0]
                            ELSE variants[v]
                 /\ orders'[o].status = "canceled_damaged"]_vars

\* C8 witness: a damaged cancellation has just clamped an oversold Variant (one
\* seeded unit, two ordered) to zero
C8_Witness ==
    /\ resp = Response("cancel_order", "warning", "admin.dashboard")
    /\ \E o \in DOMAIN orders :
          /\ orders[o].status = "canceled_damaged"
          /\ \E i \in DOMAIN orders[o].items :
                /\ orders[o].items[i].qty > SeedStock
                /\ variants[orders[o].items[i].variant_id].stock_qty = 0

\* C9: cancel_order with an action that is neither 'restock' nor 'damaged'
\* changes no persisted row, and is answered with the error message when the
\* Order is not canceled already.
C9_InvalidActionRejected ==
    [][\A o \in DOMAIN orders, action_in \in CancelActions \ {NULL, "restock", "damaged"} :
          cancel_order_request(o, action_in)
              => /\ Untouched
                 /\ resp'.op = "cancel_order"
                 /\ resp'.outcome = IF orders[o].status \in Canceled THEN "info" ELSE "error"]_vars

\* C9 witness: the error response, with an order that is not canceled
C9_Witness ==
    /\ resp = Response("cancel_order", "error", "admin.dashboard")
    /\ \E o \in DOMAIN orders :
          /\ orders[o].status \notin Canceled
          /\ orders[o].shipments # <<>>

\* the quantity of Variant v on the items of these orders
OutstandingQty(os, v) ==
    SumOver([order \in {os[o] : o \in DOMAIN os} |-> OrderQty(order, v)], os)

\* C10: inserting an OrderItem of quantity N takes exactly N from its Variant's
\* stock_qty and deleting it gives exactly N back, for every N >= 0 and every
\* stock, so that stock_qty plus the quantities of the OrderItems that exist
\* never changes: an insert followed by the delete restores stock_qty.
C10_StockLedgerRoundTrip ==
    [][/\ \A v \in Variants, qty \in 0..MaxQty :
              insert_order_item_of(v, qty)
                  => \A w \in Variants :
                         variants'[w].stock_qty =
                             variants[w].stock_qty - (IF w = v THEN qty ELSE 0)
       /\ \A i \in DOMAIN orders[1].items :
              delete_order_item_at(i)
                  => \A w \in Variants :
                         variants'[w].stock_qty =
                             variants[w].stock_qty + (IF w = orders[1].items[i].variant_id
                                                      THEN orders[1].items[i].qty ELSE 0)
       /\ \A v \in Variants :
              variants'[v].stock_qty + OutstandingQty(orders', v)
                  = variants[v].stock_qty + OutstandingQty(orders, v)]_vars

\* C10 witness: an oversold Variant whose OrderItem (the only one there was) has
\* just been deleted, its stock_qty back at a starting value
C10_Witness ==
    /\ resp = Response("after_delete", "flushed", "none")
    /\ orders[1].items = <<>>
    /\ \E v \in Variants : variants[v].stock_qty = -1

\* C11: a successful checkout adds 1 to the used_count of the coupon it applied
\* (the submitted code matches a Coupon whose is_valid is true) and leaves every
\* other used_count, that of a matched but invalid coupon included, as it was.
C11_CouponCountedIffApplied ==
    [][\A country_in \in Countries, coupon_code \in CouponInputs,
          method_in \in PaymentMethods, now \in Times,
          intent_status \in IntentStatuses \cup {""} :
          LET gc == get_or_create_cart(carts, session)
              cart == gc.carts[gc.id]
          IN  (/\ cart.items # <<>>
               /\ checkout_post(gc, country_in, coupon_code, method_in, now, "ok", intent_status))
              => \A code \in DOMAIN coupons :
                    coupons'[code].used_count =
                        coupons[code].used_count
                            + (IF /\ code \in find_coupon(coupons, coupon_code)
                                  /\ is_valid(coupons[code], CartTotal(cart), now)
                               THEN 1 ELSE 0)]_vars

\* C12: for every stored coupon and every subtotal >= 0, discount_amount
\* returns at most the subtotal.
C12_DiscountAtMostSubtotal ==
    [][\A code \in DOMAIN coupons, subtotal \in Subtotals :
          discount_amount_call(code, subtotal) => resp'.outcome <= subtotal]_vars

\* the conditions under which a coupon is not valid for this subtotal and time
Rejected(c, subtotal, now) ==
    \/ ~c.is_active
    \/ c.start_at # NoValue /\ now < c.start_at[1]
    \/ c.end_at # NoValue /\ now > c.end_at[1]
    \/ c.min_subtotal # NoValue /\ subtotal < c.min_subtotal[1]
    \/ c.max_uses # NoValue /\ c.used_count >= c.max_uses[1]

\* C13: is_valid returns false exactly when the coupon is inactive, or now is
\* before a set start_at or after a set end_at, or the subtotal is below a set
\* min_subtotal, or used_count has reached a set max_uses (a max_uses of 0
\* included).
C13_IsValidRejects ==
    [][\A code \in DOMAIN coupons, subtotal \in Subtotals, now \in CouponTimes :
          is_valid_call(code, subtotal, now)
              => (resp'.outcome = "False" <=> Rejected(coupons[code], subtotal, now))]_vars

\* the money columns and the items of an Order
OrderMoney(order) ==
    <<order.items, order.subtotal, order.shipping_fee, order.discount, order.grand_total>>

\* the quantity of Variant v on the cart's lines
CartQty(cart, v) ==
    SumOver([it \in {cart.items[i] : i \in DOMAIN cart.items} |->
                IF it.variant_id = v THEN it.qty ELSE 0],
            cart.items)

\* C14: every persisted Order has subtotal equal to the sum of its OrderItems'
\* total_price, each of them the unit price times the qty of the cart line it
\* was taken from, and grand_total = subtotal + shipping_fee - discount; no
\* request changes these columns or the items of an Order that exists.
C14_OrderTotals ==
    [][\A o \in DOMAIN orders' :
          LET order == orders'[o]
          IN  /\ \A i \in DOMAIN order.items :
                    order.items[i].total_price = order.items[i].unit_price * order.items[i].qty
              /\ order.subtotal =
                    SumOver([it \in {order.items[i] : i \in DOMAIN order.items} |-> it.total_price],
                            order.items)
              /\ order.grand_total = order.subtotal + order.shipping_fee - order.discount
              /\ IF o \in DOMAIN orders
                 THEN OrderMoney(order) = OrderMoney(orders[o])
                 ELSE LET lines == carts[session.cart_id[1]].items
                      IN  /\ DOMAIN order.items = DOMAIN lines
                          /\ \A i \in DOMAIN lines :
                                /\ order.items[i].unit_price = lines[i].price_at
                                /\ order.items[i].qty = lines[i].qty]_vars

\* C14 witness: the Order of a cart with 2 of the Variant priced 100 and 1 of the
\* one priced 50, domestic and without a coupon discount, once it is shipped
C14_Witness ==
    \E o \in DOMAIN orders :
        /\ orders[o].status = "shipped"
        /\ Len(orders[o].items) = 2
        /\ orders[o].subtotal = 250
        /\ orders[o].discount = 0
        /\ orders[o].grand_total = 400

\* C15: a successful checkout of a non-empty cart with a method other than
\* stripe adds exactly one Order, 'pending', with one OrderItem per cart line
\* (its variant, qty and price) and one Payment, 'init', for the grand_total;
\* it takes the ordered qty from each Variant's stock_qty and leaves the cart
\* without items.
C15_CheckoutPersistsOrder ==
    [][\A country_in \in Countries, coupon_code \in CouponInputs, now \in Times :
          LET gc == get_or_create_cart(carts, session)
              cart == gc.carts[gc.id]
              order == orders'[Len(orders')]
          IN  (/\ cart.items # <<>>
               /\ checkout_post(gc, country_in, coupon_code, NULL, now, "ok", ""))
              => /\ Len(orders') = Len(orders) + 1
                 /\ \A o \in DOMAIN orders : orders'[o] = orders[o]
                 /\ order.status = "pending"
                 /\ DOMAIN order.items = DOMAIN cart.items
                 /\ \A i \in DOMAIN cart.items :
                       /\ order.items[i].variant_id = cart.items[i].variant_id
                       /\ order.items[i].qty = cart.items[i].qty
                       /\ order.items[i].unit_price = cart.items[i].price_at
                 /\ Len(order.payments) = 1
                 /\ order.payments[1].status = "init"
                 /\ order.payments[1].amount = order.grand_total
                 /\ \A v \in Variants :
                       variants'[v].stock_qty = variants[v].stock_qty - CartQty(cart, v)
                 /\ carts'[gc.id].items = <<>>]_vars

\* C15 witness: the response of a successful promptpay checkout of two lines,
\* one of them of 2 units of a Variant that had 1 in stock
C15_Witness ==
    /\ resp = Response("checkout", "success", "store.order_status")
    /\ \E o \in DOMAIN orders :
          /\ orders[o].status = "pending"
          /\ orders[o].payment_method = "promptpay"
          /\ Len(orders[o].items) = 2
          /\ \E i \in DOMAIN orders[o].items :
                /\ orders[o].items[i].qty = 2
                /\ variants[orders[o].items[i].variant_id].stock_qty = SeedStock - 2
    /\ carts[1].items = <<>>

RECURSIVE Crc16Bits(_, _, _)
\* CRC-16/CCITT-FALSE as a shift register fed a message bit by bit: the
\* register after the k low bits of character c, most significant first
Crc16Bits(reg, c, k) ==
    LET bit == (c \div (2 ^ (k - 1))) % 2
        top == (reg \div 32768) % 2
        shifted == (reg * 2) % 65536
        fed == IF top # bit THEN Xor(shifted, 4129) ELSE shifted
    IN  IF k = 0 \/ fed < 0 THEN reg ELSE Crc16Bits(fed, c, k - 1)

RECURSIVE Crc16Chars(_, _, _, _)
\* the register after the characters lo..hi of data
Crc16Chars(reg, data, lo, hi) ==
    IF lo > hi THEN reg
    ELSE IF lo = hi THEN Crc16Bits(reg, data[lo], 8)
    ELSE LET mid == (lo + hi) \div 2
             half == Crc16Chars(reg, data, lo, mid)
         IN  IF half < 0 THEN reg ELSE Crc16Chars(half, data, mid + 1, hi)

\* the 4 upper-case hexadecimal digits of n
UpperHex(n) ==
    LET digit(d) == IF d < 10 THEN 48 + d ELSE 55 + d
    IN  <<digit(n \div 4096), digit((n \div 256) % 16), digit((n \div 16) % 16), digit(n % 16)>>

\* C16: the last 4 characters of what encode returns are the upper-case hex
\* CRC-16/CCITT-FALSE (polynomial 0x1021, initial value 0xFFFF, no final XOR)
\* of all the characters before them, and those end with the tag "6304".
C16_TrailerIsCrcOfPayload ==
    resp.op = "encode"
        => LET out == resp.outcome
               n == Len(out)
               body == SubSeq(out, 1, n - 4)
           IN  /\ n >= 8
               /\ SubSeq(body, n - 7, n - 4) = <<54, 51, 48, 52>>
               /\ SubSeq(out, n - 3, n) = UpperHex(Crc16Chars(65535, body, 1, Len(body)))

\* C16 witness: the encoded payload of a phone number and the amount 400, whose
\* checksum has a letter among its digits
C16_Witness ==
    /\ resp.op = "encode"
    /\ resp.promptpay_id = <<48, 56, 49, 50, 51, 52, 53, 54, 55, 56>>
    /\ resp.amount = 400
    /\ \E i \in 1..4 : resp.outcome[Len(resp.outcome) - 4 + i] >= 65

\* C17: a stripe checkout while no secret key is configured ends in a handled
\* failure response, not in an unhandled exception, and no persisted row
\* changes.
C17_MissingKeyIsHandled ==
    [][\A country_in \in Countries, coupon_code \in CouponInputs, now \in Times :
          LET gc == get_or_create_cart(carts, session)
          IN  (/\ gc.carts[gc.id].items # <<>>
               /\ checkout_post(gc, country_in, coupon_code, "stripe", now, "RuntimeError", ""))
              => /\ Untouched
                 /\ resp'.location # "abort"]_vars

\* C18: a checkout request on an empty cart, the cart of a session that has
\* none yet included, creates and changes no persisted row.
C18_EmptyCartCheckoutMutatesNothing ==
    [][LET gc == get_or_create_cart(carts, session)
       IN  (gc.carts[gc.id].items = <<>> /\ checkout) => Untouched]_vars

\* C19: stripe_confirm_payment copies the remote status onto the latest
\* Payment of the Order; it sets the Order 'paid' and the Payment's paid_at
\* when that status is 'succeeded', leaves both as they were for any other
\* status, and changes nothing when the retrieval fails.
C19_StripeConfirmMirrorsIntent ==
    [][stripe_confirm_payment
          => IF resp'.location = "200"
             THEN \E o \in DOMAIN orders :
                     LET before == orders[o]
                         after == orders'[o]
                         n == Len(before.payments)
                     IN  /\ \A other \in DOMAIN orders \ {o} : orders'[other] = orders[other]
                         /\ Len(after.payments) = n
                         /\ \A i \in 1..(n - 1) : after.payments[i] = before.payments[i]
                         /\ after.payments[n].status = resp'.outcome
                         /\ IF resp'.outcome = "succeeded"
                            THEN /\ after.status = "paid"
                                 /\ after.payments[n].paid_at = NOW
                            ELSE /\ after.status = before.status
                                 /\ after.payments[n].paid_at = before.payments[n].paid_at
             ELSE Untouched]_vars

\* C19 witness: the answer for an intent that has not succeeded, with the
\* Order still 'pending' and its Payment unpaid
C19_Witness ==
    /\ resp = Response("stripe_confirm_payment", "requires_payment_method", "200")
    /\ \E o \in DOMAIN orders :
          /\ orders[o].status = "pending"
          /\ Last(orders[o].payments).status = "requires_payment_method"
          /\ Last(orders[o].payments).paid_at = NULL

\* C20: an Order never has more than one Shipment: a ship_order request leaves
\* the Order it ships with exactly one, status 'shipped', and no request adds
\* a Shipment to, or takes it from, an Order that has one.
C20_AtMostOneShipment ==
    [][/\ \A o \in DOMAIN orders' :
             /\ Len(orders'[o].shipments) <= 1
             /\ (o \in DOMAIN orders /\ orders[o].shipments # <<>>)
                   => Len(orders'[o].shipments) = 1
       /\ (ship_order /\ resp'.outcome = "success")
             => \E o \in DOMAIN orders :
                   /\ Len(orders'[o].shipments) = 1
                   /\ orders'[o].shipments[1].status = "shipped"
                   /\ orders'[o].status = "shipped"]_vars

\* C20 witness: an Order shipped again after its cancellation, with the one
\* Shipment it had
C20_Witness ==
    /\ resp = Response("ship_order", "success", "admin.dashboard")
    /\ \E o \in DOMAIN orders :
          /\ Len(orders[o].shipments) = 1
          /\ orders[o].shipments[1].status = "shipped"
          /\ \E i \in DOMAIN orders[o].payments : orders[o].payments[i].status = "canceled"

\* C21: a Payment whose status is 'confirmed', 'succeeded' or 'canceled' is
\* never set back to 'init', and a 'canceled' Payment never becomes
\* 'confirmed' or 'succeeded'.
C21_PaymentStatusMovesForward ==
    [][\A o \in DOMAIN orders : \A i \in DOMAIN orders[o].payments :
          LET before == orders[o].payments[i].status
              after == orders'[o].payments[i].status
          IN  /\ before \in {"confirmed", "succeeded", "canceled"} => after # "init"
              /\ before = "canceled" => after \notin {"confirmed", "succeeded"}]_vars

\* C30: an Order that is 'paid' or 'shipped' has a latest Payment that is
\* 'confirmed' or 'succeeded' with its paid_at set, and an Order that is
\* 'canceled' or 'canceled_damaged' has no Payment that is not 'canceled'.
C30_OrderAndPaymentAgree ==
    \A o \in DOMAIN orders :
        LET order == orders[o]
        IN  /\ order.status \in {"paid", "shipped"}
                  => /\ order.payments # <<>>
                     /\ Last(order.payments).status \in {"confirmed", "succeeded"}
                     /\ Last(order.payments).paid_at # NULL
            /\ order.status \in Canceled
                  => \A i \in DOMAIN order.payments : order.payments[i].status = "canceled"

RECURSIVE TlvTags(_, _)
\* the tags of the tag-length-value fields that str is made of from its i-th
\* character on, read by their declared lengths; <<0>> ends the tags when
\* the fields do not fill the string exactly
TlvTags(str, i) ==
    IF i = Len(str) + 1 THEN <<>>
    ELSE IF i + 3 > Len(str) THEN <<0>>
    ELSE LET tag == 10 * (str[i] - 48) + (str[i + 1] - 48)
             length == 10 * (str[i + 2] - 48) + (str[i + 3] - 48)
         IN  IF i + 3 + length > Len(str) THEN <<0>>
             ELSE <<tag>> \o TlvTags(str, i + 4 + length)

\* the value of the first field with this tag, str being made of fields
RECURSIVE TlvValue(_, _, _)
TlvValue(str, i, wanted) ==
    LET tag == 10 * (str[i] - 48) + (str[i + 1] - 48)
        length == 10 * (str[i + 2] - 48) + (str[i + 3] - 48)
    IN  IF tag = wanted THEN SubSeq(str, i + 4, i + 3 + length)
        ELSE TlvValue(str, i + 4 + length, wanted)

\* C24: read by the declared lengths of its fields, a PromptPay payload is
\* exactly the fields 00, 01, 29, 58, 53, 54, 63 and its field 29 exactly the
\* fields 00 and 01: the payee field declared 13 holds 13 characters and the
\* amount field declared 06 holds 6, for every payee id and amount.
C24_DeclaredLengthsMatch ==
    resp.op = "encode"
        => /\ TlvTags(resp.outcome, 1) = <<0, 1, 29, 58, 53, 54, 63>>
           /\ TlvTags(TlvValue(resp.outcome, 1, 29), 1) = <<0, 1>>

\* C23: checkout has no stock floor: whatever the quantity q of a cart line and
\* the stock s of its Variant (s < q and s <= 0 included), a checkout whose
\* payment provider answers succeeds and leaves stock_qty = s - q.
C23_CheckoutOversells ==
    [][\A country_in \in Countries, coupon_code \in CouponInputs,
          method_in \in PaymentMethods, now \in Times,
          intent_status \in IntentStatuses \cup {""} :
          LET gc == get_or_create_cart(carts, session)
              cart == gc.carts[gc.id]
          IN  (/\ cart.items # <<>>
               /\ checkout_post(gc, country_in, coupon_code, method_in, now, "ok", intent_status))
              => /\ resp' = Response("checkout", "success", "store.order_status")
                 /\ Len(orders') = Len(orders) + 1
                 /\ \A v \in Variants :
                       variants'[v].stock_qty = variants[v].stock_qty - CartQty(cart, v)]_vars

\* C23 witness: a successful checkout of 2 units of a Variant whose stock was
\* -1, now -3
C23_Witness ==
    /\ resp = Response("checkout", "success", "store.order_status")
    /\ \E o \in DOMAIN orders : \E i \in DOMAIN orders[o].items :
          /\ orders[o].items[i].qty = 2
          /\ variants[orders[o].items[i].variant_id].stock_qty = -3

\* C29: every Coupon with a usage cap has used_count <= max_uses.
C29_UsageCapHolds ==
    \A code \in DOMAIN coupons :
        coupons[code].max_uses # NoValue => coupons[code].used_count <= coupons[code].max_uses[1]

\* C22: confirm_payment sets the Order's latest Payment 'confirmed' with a
\* paid_at, or adds one Payment (transfer, amount = grand_total, 'confirmed',
\* paid) to an Order that has none; it sets the Order 'paid' and leaves every
\* stock_qty, the Order's items and totals, and everything else as they were.
C22_ConfirmPaymentFrame ==
    [][(confirm_payment /\ resp'.outcome = "success")
          => \E o \in DOMAIN orders :
                LET before == orders[o]
                    after == orders'[o]
                    n == Len(before.payments)
                IN  /\ \A other \in DOMAIN orders \ {o} : orders'[other] = orders[other]
                    /\ after = [before EXCEPT !.status = "paid", !.payments = after.payments]
                    /\ IF n = 0
                       THEN after.payments =
                               <<Payment("transfer", NoValue, before.grand_total,
                                         "confirmed", NOW, NULL)>>
                       ELSE /\ Len(after.payments) = n
                            /\ \A i \in 1..(n - 1) : after.payments[i] = before.payments[i]
                            /\ after.payments[n] =
                                  [before.payments[n] EXCEPT !.status = "confirmed",
                                                             !.paid_at = NOW]
                    /\ variants' = variants
                    /\ products' = products
                    /\ coupons' = coupons
                    /\ carts' = carts]_vars

\* C22 witness: an Order that had no Payment, confirmed: 'paid', with the one
\* transfer Payment for its grand_total
C22_Witness ==
    /\ resp = Response("confirm_payment", "success", "admin.dashboard")
    /\ \E o \in DOMAIN orders :
          /\ orders[o].status = "paid"
          /\ orders[o].grand_total = 400
          /\ orders[o].payments = <<Payment("transfer", NoValue, 400, "confirmed", NOW, NULL)>>

\* both requests are answered
BothAnswered == \A w \in Workers : requests[w].pc = "done"

\* the stock of Variant 1 before the two requests: the seeded stock less the
\* quantity of the stored Order
StockBefore == SeedStock - OrderQty(orders[1], 1)

\* the quantity of Variant 1 request w asks for or returns
RequestQty(w) == OrderQty([items |-> requests[w].items], 1)

\* C25: two concurrent checkouts of quantities q1 and q2 of the same Variant,
\* from two carts: both Orders commit, and the final stock_qty is the initial
\* stock - q1 - q2.
C25_NoDecrementLost ==
    (/\ BothAnswered
     /\ \A w \in Workers : requests[w].op = "checkout"
     /\ requests[1].id # requests[2].id)
        => /\ \A w \in Workers : requests[w].outcome = "success"
           /\ Len(orders) = 3
           /\ variants[1].stock_qty = StockBefore - RequestQty(1) - RequestQty(2)

\* C26: a restock cancellation of an Order holding c of a Variant, concurrent
\* with a checkout of q of the same Variant: the final stock_qty is the
\* initial stock + c - q.
C26_RestockAndDecrementBothCount ==
    (/\ BothAnswered
     /\ {requests[w].op : w \in Workers} = {"checkout", "cancel_order"})
        => variants[1].stock_qty = StockBefore + OrderQty(orders[1], 1)
                                       - SumOver([w \in Workers |->
                                                     IF requests[w].op = "checkout"
                                                     THEN RequestQty(w) ELSE 0], <<1, 2>>)

\* C27: two concurrent restock cancellations of the same Order return its
\* quantities to stock exactly once.
C27_RestockedOnce ==
    (/\ BothAnswered
     /\ \A w \in Workers : requests[w].op = "cancel_order")
        => \A v \in Variants :
              variants[v].stock_qty =
                  (IF v = 1 THEN StockBefore ELSE SeedStock) + OrderQty(orders[1], v)

\* C28: two checkout submissions for the same cart create at most one Order
\* from its items, and stock is decremented by the cart quantity at most once.
C28_CartConvertedOnce ==
    (/\ BothAnswered
     /\ \A w \in Workers : requests[w].op = "checkout"
     /\ requests[1].id = requests[2].id)
        => /\ Len(orders) <= 2
           /\ \E w \in Workers : variants[1].stock_qty >= StockBefore - RequestQty(w)

====
